---------------------------- MODULE Spec2Model ----------------------------
(***************************************************************************)
(* Model of scripts/derive_task_completions.py: the reconstruction of      *)
(* economic/task_completions.jsonl from work/tasks.jsonl,                   *)
(* economic/token_costs.jsonl and economic/balance.jsonl.                   *)
(*                                                                         *)
(* Representation of JSON data                                             *)
(*   - a log line is a record with one field per JSON key the script reads *)
(*     plus `parse`, which tells whether the line is a JSON object ("ok"), *)
(*     a malformed line ("malformed") or a blank line ("blank");           *)
(*   - string-valued keys (task_id, date, type) hold a string; Missing     *)
(*     stands for an absent key and Null for JSON null;                    *)
(*   - the other keys hold a tagged value [kind, v]: see the kinds below.  *)
(*     Durations and instants are integers in milliseconds, scores and     *)
(*     payments integers in units of 10^-5, so that round(x, 2) and        *)
(*     round(x, 4) are both "round to the nearest multiple of 10".         *)
(*   - score fields are numbers when present and dates are strings, null   *)
(*     or absent, as the live tracker writes them.                         *)
(***************************************************************************)
EXTENDS Integers, Sequences, FiniteSets, TLC

VARIABLES
    rootExists,       \* the agent directory exists
    economicDir,      \* <agent_dir>/economic exists
    tasksFile,        \* work/tasks.jsonl            [exists, lines]
    costsFile,        \* economic/token_costs.jsonl  [exists, lines]
    balanceFile,      \* economic/balance.jsonl      [exists, lines]
    outFile,          \* economic/task_completions.jsonl [exists, lines]
    lastRun,          \* "none" | "dry" | "write": mode of the last run of main
    exit_code,        \* NotRun, 0 or 1: exit status of the last run of main
    returned,         \* list returned by the last derive_task_completions
    tasks,            \* locals of the last derive_task_completions: the
    cost_records,     \*   four indexes, as insertion-ordered dicts
    income_records,
    balance_records,
    arg_task,         \* arguments and result of a direct call of
    arg_cost,         \*   derive_record (specification SpecRecord)
    arg_income,
    arg_balance,
    called,
    result

fsvars   == <<rootExists, economicDir, tasksFile, costsFile, balanceFile, outFile>>
runvars  == <<lastRun, exit_code, returned, tasks, cost_records,
              income_records, balance_records>>
callvars == <<arg_task, arg_cost, arg_income, arg_balance, called, result>>
vars     == <<fsvars, runvars, callvars>>

----------------------------------------------------------------------------
(* JSON values *)

Missing == "<missing>"       \* the key is absent from the object
Null    == "<null>"          \* JSON null
D1      == "2024-01-01"
D2      == "2024-01-02"
Initialization == "initialization"
WorkIncome     == "work_income"

\* Tagged values. kind is one of
\*   "missing"  absent key            "null"   JSON null
\*   "empty"    the string ""         "bad"    a string that is neither an ISO
\*                                             date-time nor a number
\*   "list"     a JSON array          "num"    a JSON number, v its value
\*   "numstr"   a string spelling the number v
\*   "naive"    ISO date-time string without UTC offset, v its instant
\*   "aware"    ISO date-time string with offset +00:00, v its instant
V(kind, v) == [kind |-> kind, v |-> v]
VMissing   == V("missing", 0)
VNull      == V("null", 0)
Num(v)     == V("num", v)

\* Python truthiness of a string-valued key: None and "" are falsy.
TruthyStr(s) == s \notin {Missing, Null, ""}

\* Python truthiness of a tagged value: None, "", 0 and [] are falsy.
Truthy(x) ==
    CASE x.kind \in {"missing", "null", "empty"} -> FALSE
      [] x.kind = "num"                         -> x.v # 0
      [] OTHER                                  -> TRUE

\* A parsed JSON object with none of the keys the script reads.
Blank ==
    [parse |-> "ok", task_id |-> Missing, date |-> Missing, type |-> Missing,
     timestamp_start |-> VMissing, timestamp_end |-> VMissing,
     timestamp |-> VMissing, evaluation_score |-> VMissing,
     actual_payment |-> VMissing, task_completion_time_seconds |-> VMissing]

\* Python's None where a record is expected.
None == [Blank EXCEPT !.parse = "none"]

\* round(x, 2) on milliseconds, round(x, 4) on units of 10^-5: the nearest
\* multiple of 10.  (An exact tie is decided in Python by the float's binary
\* expansion; the value sets of this module hold no tie.)
RoundHalfUp(x) == ((x + 5) \div 10) * 10
Round(x) == RoundHalfUp(x)


----------------------------------------------------------------------------
(* Outcomes of a step that may raise *)

\* ctl is "return" (val is the value), "pass" (control falls through to the
\* next statement) or "raise" (exc is the exception's class).
Return(v)  == [ctl |-> "return", exc |-> "none", val |-> v]
Pass       == [ctl |-> "pass",   exc |-> "none", val |-> VNull]
Raise(e)   == [ctl |-> "raise",  exc |-> e,      val |-> VNull]

\* datetime.fromisoformat(x): a date-time for an ISO string, ValueError for
\* any other string, TypeError for an argument that is not a string.
fromisoformat(x) ==
    CASE x.kind \in {"naive", "aware"}         -> Return(x)
      [] x.kind \in {"bad", "empty", "numstr"} -> Raise("ValueError")
      [] OTHER                                 -> Raise("TypeError")

\* (t_end - t_start).total_seconds(): subtracting an offset-naive from an
\* offset-aware date-time (or the reverse) raises TypeError.
total_seconds(t_end, t_start) ==
    IF t_end.kind # t_start.kind
    THEN Raise("TypeError")
    ELSE Return(Num(t_end.v - t_start.v))

\* float(x): the number for a number or a string spelling one, ValueError
\* for another string, TypeError for null or an array.
float(x) ==
    CASE x.kind \in {"num", "numstr"}                    -> Return(Num(x.v))
      [] x.kind \in {"bad", "empty", "naive", "aware"}   -> Raise("ValueError")
      [] OTHER                                           -> Raise("TypeError")

\* The classes named by compute_wall_clock's two except clauses.
WallClockCaughtOnlyValueError == {"ValueError"}
WallClockCaught == {"ValueError", "TypeError"}

----------------------------------------------------------------------------
(* compute_wall_clock *)

\* (t_end - t_start).total_seconds() of the two parsed stamps; the first
\* statement of the try block that raises ends it.
SecondsBetween(t_start, t_end) ==
    IF t_start.ctl = "raise" THEN t_start
    ELSE IF t_end.ctl = "raise" THEN t_end
    ELSE total_seconds(t_end.val, t_start.val)

\* The first try block given secs (or the exception raised on the way):
\* return round(secs, 2) when secs >= 0; a caught exception passes.
Source1Result(secs) ==
    IF secs.ctl = "raise"
    THEN IF secs.exc \in WallClockCaught THEN Pass ELSE secs
    ELSE IF secs.val.v >= 0 THEN Return(Num(Round(secs.val.v))) ELSE Pass

\* Source 1: timestamps from the task cost record.
WallClockSource1(cost_rec) ==
    IF cost_rec # None /\ Truthy(cost_rec.timestamp_start)
                       /\ Truthy(cost_rec.timestamp_end)
    THEN Source1Result(SecondsBetween(fromisoformat(cost_rec.timestamp_start),
                                      fromisoformat(cost_rec.timestamp_end)))
    ELSE Pass

\* The second try block given float(...): return round(f, 2).
Source2Result(f) ==
    IF f.ctl = "raise"
    THEN IF f.exc \in WallClockCaught THEN Pass ELSE f
    ELSE Return(Num(Round(f.val.v)))

\* Source 2: balance.jsonl task_completion_time_seconds.
WallClockSource2(balance_rec) ==
    IF balance_rec # None
       /\ balance_rec.task_completion_time_seconds.kind \notin {"missing", "null"}
    THEN Source2Result(float(balance_rec.task_completion_time_seconds))
    ELSE Pass

\* The function's three exits in order: source 1, source 2, return None.
FirstExit(s1, s2) ==
    IF s1.ctl # "pass" THEN s1
    ELSE IF s2.ctl # "pass" THEN s2
    ELSE Return(VNull)

compute_wall_clock_balance_first(task_id, cost_rec, balance_rec) ==
    FirstExit(WallClockSource2(balance_rec), WallClockSource1(cost_rec))
compute_wall_clock(task_id, cost_rec, balance_rec) ==
    FirstExit(WallClockSource1(cost_rec), WallClockSource2(balance_rec))

----------------------------------------------------------------------------
(* derive_record *)

\* Python's  a or b  on string-valued keys.
Or(a, b) == IF TruthyStr(a) THEN a ELSE b

\* rec.get("date") if rec else None
DateOf(rec) == IF rec # None THEN rec.date ELSE Null

\* The shape of a task_completions entry; NoRecord stands where a call
\* raised or skipped instead of returning one.
NoRecord ==
    [task_id |-> Missing, date |-> "", attempt |-> 0, work_submitted |-> FALSE,
     evaluation_score |-> 0, money_earned |-> 0, wall_clock_seconds |-> VNull,
     timestamp |-> VNull, _derived |-> FALSE]

\* float(income_rec.get(key, 0.0)) if income_rec else 0.0, then round(_, 4)
ScoreOf(income_rec, x) ==
    IF income_rec = None \/ x.kind = "missing" THEN 0 ELSE Round(x.v)

DerivedDateTaskLast(task_rec, cost_rec, income_rec) ==
    Or(Or(Or(DateOf(cost_rec), DateOf(income_rec)), task_rec.date), "")
DerivedDate(task_rec, cost_rec, income_rec) ==
    Or(Or(Or(task_rec.date, DateOf(cost_rec)), DateOf(income_rec)), "")

DerivedTimestampSkipIncome(cost_rec, income_rec, now) ==
    IF cost_rec # None /\ Truthy(cost_rec.timestamp_end)
    THEN cost_rec.timestamp_end
    ELSE V("naive", now)
DerivedTimestamp(cost_rec, income_rec, now) ==
    IF cost_rec # None /\ Truthy(cost_rec.timestamp_end)
    THEN cost_rec.timestamp_end
    ELSE IF income_rec # None /\ Truthy(income_rec.timestamp)
         THEN income_rec.timestamp
         ELSE V("naive", now)        \* datetime.now().isoformat()

\* The record built once wall_clock is known, or the exception that escaped
\* compute_wall_clock.
BuildRecord(task_id, task_rec, cost_rec, income_rec, now, wall_clock) ==
    IF wall_clock.ctl = "raise"
    THEN [ctl |-> "raise", exc |-> wall_clock.exc, rec |-> NoRecord]
    ELSE [ctl |-> "return", exc |-> "none", rec |->
           [task_id  |-> task_id,
            date     |-> DerivedDate(task_rec, cost_rec, income_rec),
            attempt  |-> 1,
            work_submitted   |-> income_rec # None,
            evaluation_score |-> ScoreOf(income_rec, income_rec.evaluation_score),
            money_earned     |-> ScoreOf(income_rec, income_rec.actual_payment),
            wall_clock_seconds |-> wall_clock.val,
            timestamp |-> DerivedTimestamp(cost_rec, income_rec, now),
            _derived  |-> TRUE]]

\* [ctl, exc, rec]
derive_record(task_id, task_rec, cost_rec, income_rec, balance_rec, now) ==
    BuildRecord(task_id, task_rec, cost_rec, income_rec, now,
                compute_wall_clock(task_id, cost_rec, balance_rec))

----------------------------------------------------------------------------
(* Loaders *)

\* A Python dict: the sequence of its [key, val] items in insertion order.
dict_keys(d) == {d[i].key : i \in DOMAIN d}

dict_get(d, k) ==
    IF k \in dict_keys(d)
    THEN (d[CHOOSE i \in DOMAIN d : d[i].key = k]).val
    ELSE None

\* d[k] = v: a new key is appended, a key already there keeps its place.
dict_set_append(d, k, v) == Append(d, [key |-> k, val |-> v])
dict_set(d, k, v) ==
    IF k \in dict_keys(d)
    THEN [i \in DOMAIN d |-> IF d[i].key = k THEN [key |-> k, val |-> v] ELSE d[i]]
    ELSE Append(d, [key |-> k, val |-> v])

\* load_jsonl: the parsed records of a file, blank and malformed lines skipped.
load_jsonl(lines) == SelectSeq(lines, LAMBDA l : l.parse = "ok")

\* One iteration of load_tasks' loop.
TaskStep(by_task, rec) ==
    IF TruthyStr(rec.task_id) THEN dict_set(by_task, rec.task_id, rec)
                              ELSE by_task

RECURSIVE FoldTasks(_, _)
FoldTasks(recs, by_task) ==
    IF recs = <<>> THEN by_task
    ELSE FoldTasks(Tail(recs), TaskStep(by_task, Head(recs)))

load_tasks(file) ==
    IF ~file.exists THEN <<>> ELSE FoldTasks(load_jsonl(file.lines), <<>>)

\* "timestamp_start" in rec and "timestamp_end" in rec
HasTimestampKeys(rec) ==
    rec.timestamp_start.kind # "missing" /\ rec.timestamp_end.kind # "missing"

\* One iteration of load_token_costs' loop.
TokenCostStep(acc, rec) ==
    IF ~TruthyStr(rec.task_id) THEN acc
    ELSE IF rec.type = WorkIncome
    THEN [acc EXCEPT !.income_records = dict_set(@, rec.task_id, rec)]
    ELSE IF HasTimestampKeys(rec)
    THEN [acc EXCEPT !.cost_records = dict_set(@, rec.task_id, rec)]
    ELSE acc

RECURSIVE FoldTokenCosts(_, _)
FoldTokenCosts(recs, acc) ==
    IF recs = <<>> THEN acc
    ELSE FoldTokenCosts(Tail(recs), TokenCostStep(acc, Head(recs)))

load_token_costs(file) ==
    IF ~file.exists
    THEN [cost_records |-> <<>>, income_records |-> <<>>]
    ELSE FoldTokenCosts(load_jsonl(file.lines),
                        [cost_records |-> <<>>, income_records |-> <<>>])

\* One iteration of load_balance's loop.
BalanceStep(by_task, rec) ==
    IF TruthyStr(rec.task_id) /\ rec.date # Initialization
    THEN dict_set(by_task, rec.task_id, rec)
    ELSE by_task

RECURSIVE FoldBalance(_, _)
FoldBalance(recs, by_task) ==
    IF recs = <<>> THEN by_task
    ELSE FoldBalance(Tail(recs), BalanceStep(by_task, Head(recs)))

load_balance(file) ==
    IF ~file.exists THEN <<>> ELSE FoldBalance(load_jsonl(file.lines), <<>>)

----------------------------------------------------------------------------
(* derive_task_completions *)

\* Python's order on the date strings of this module (code-point order).
StrRank(s) ==
    CASE s = ""  -> 0
      [] s = D1  -> 1
      [] s = D2  -> 2
StrLeq(a, b) == StrRank(a) <= StrRank(b)
StrLess(a, b) == StrRank(a) < StrRank(b)

\* list.sort(key=lambda r: r["date"]): a stable sort.  Each record in turn
\* goes behind the records already placed whose key is not greater.
PlaceAt(sorted, r, k) ==
    SubSeq(sorted, 1, k) \o <<r>> \o SubSeq(sorted, k + 1, Len(sorted))

InsertByDateBeforeEqual(sorted, r) ==
    PlaceAt(sorted, r,
            Cardinality({i \in DOMAIN sorted : StrLess(sorted[i].date, r.date)}))
InsertByDate(sorted, r) ==
    PlaceAt(sorted, r,
            Cardinality({i \in DOMAIN sorted : StrLeq(sorted[i].date, r.date)}))

RECURSIVE sort_by_date(_)
sort_by_date(list) ==
    IF list = <<>> THEN <<>>
    ELSE InsertByDate(sort_by_date(SubSeq(list, 1, Len(list) - 1)),
                      list[Len(list)])

\* if income_rec is None: continue
SkipsTaskNever(income_rec) == FALSE
SkipsTask(income_rec) == income_rec = None

\* One iteration of the loop over tasks.items(): the task is skipped, or
\* derive_record is called on the three lookups.
TaskOutcome(item, costs, incomes, balances, now) ==
    IF SkipsTask(dict_get(incomes, item.key))
    THEN [ctl |-> "skip", exc |-> "none", rec |-> NoRecord]
    ELSE derive_record(item.key, item.val, dict_get(costs, item.key),
                       dict_get(incomes, item.key),
                       dict_get(balances, item.key), now)

RecsOf(outs) == [i \in DOMAIN outs |-> outs[i].rec]

\* The list the loop leaves from its iterations' outcomes, in order; the
\* first exception ends the loop and the call.
Collect(outs) ==
    IF \E i \in DOMAIN outs : outs[i].ctl = "raise"
    THEN [ctl |-> "raise",
          exc |-> outs[CHOOSE i \in DOMAIN outs :
                         /\ outs[i].ctl = "raise"
                         /\ \A j \in 1..(i - 1) : outs[j].ctl # "raise"].exc,
          derived |-> <<>>]
    ELSE [ctl |-> "return", exc |-> "none",
          derived |-> RecsOf(SelectSeq(outs, LAMBDA o : o.ctl = "return"))]

DeriveLoop(items, costs, incomes, balances, now) ==
    Collect([i \in DOMAIN items |->
                TaskOutcome(items[i], costs, incomes, balances, now)])

\* The locals at the end of the derivation, before the report and the write.
Locals(ts, tc, bs, loop) ==
    [ctl |-> loop.ctl, exc |-> loop.exc, loaded |-> TRUE, tasks |-> ts,
     cost_records |-> tc.cost_records, income_records |-> tc.income_records,
     balance_records |-> bs, derived |-> sort_by_date(loop.derived)]

\* With an empty task index the function returns [] before it loads the
\* other sources.
Indexed(ts, now) ==
    IF ts = <<>>
    THEN [ctl |-> "return", exc |-> "none", loaded |-> FALSE, tasks |-> ts,
          cost_records |-> <<>>, income_records |-> <<>>,
          balance_records |-> <<>>, derived |-> <<>>]
    ELSE Locals(ts, load_token_costs(costsFile), load_balance(balanceFile),
                DeriveLoop(ts, load_token_costs(costsFile).cost_records,
                           load_token_costs(costsFile).income_records,
                           load_balance(balanceFile), now))

Derivation(now) == Indexed(load_tasks(tasksFile), now)

\* json.dumps(r) + "\n": one line of the output file.
json_dumps(r) == [parse |-> "ok", json |-> r]

\* open(out_path, "w") and the writes: the file holds exactly these lines.
WrittenAppend(old, derived) ==
    [exists |-> TRUE,
     lines  |-> old.lines \o [i \in DOMAIN derived |-> json_dumps(derived[i])]]
Written(old, derived) ==
    [exists |-> TRUE,
     lines  |-> [i \in DOMAIN derived |-> json_dumps(derived[i])]]

\* The dry_run branch: prints, and leaves the directory and the file alone.
DryRunEffectWrites(derived) ==
    /\ economicDir' = TRUE
    /\ outFile' = Written(outFile, derived)
DryRunEffect(derived) ==
    /\ UNCHANGED <<economicDir, outFile>>

\* The function from its locals d on: the early return, the escaping
\* exception, the dry_run branch or the write.
Finish(d, dry_run) ==
    /\ tasks' = d.tasks
    /\ cost_records' = d.cost_records
    /\ income_records' = d.income_records
    /\ balance_records' = d.balance_records
    /\ returned' = d.derived
    /\ exit_code' = IF d.ctl = "raise" THEN 1 ELSE 0
    /\ IF d.ctl = "raise" \/ ~d.loaded
       THEN UNCHANGED <<economicDir, outFile>>
       ELSE IF dry_run
       THEN DryRunEffect(d.derived)
       ELSE /\ economicDir' = TRUE                  \* os.makedirs
            /\ outFile' = Written(outFile, d.derived)
    /\ UNCHANGED <<rootExists, tasksFile, costsFile, balanceFile>>

derive_task_completions(dry_run, now) == Finish(Derivation(now), dry_run)

NotRun == -1

main(dry_run, now) ==
    /\ lastRun' = IF dry_run THEN "dry" ELSE "write"
    /\ IF ~rootExists
       THEN /\ exit_code' = 1                           \* sys.exit(1)
            /\ returned' = <<>>
            /\ UNCHANGED <<tasks, cost_records, income_records, balance_records>>
            /\ UNCHANGED fsvars
       ELSE derive_task_completions(dry_run, now)
    /\ UNCHANGED callvars

----------------------------------------------------------------------------
(* Inputs *)

\* Total number of lines of the three input logs.
MaxLines == 4

\* Values datetime.now() may take (instants, milliseconds).
NowVals == {7000, 8000}

File(lines) == [exists |-> lines # <<>>, lines |-> lines]
Absent      == [exists |-> FALSE, lines |-> <<>>]

\* Lines of work/tasks.jsonl.
TaskLines ==
    { [Blank EXCEPT !.task_id = "T1", !.date = D2],
      [Blank EXCEPT !.task_id = "T1", !.date = D1],
      [Blank EXCEPT !.task_id = "T2", !.date = D1],
      [Blank EXCEPT !.task_id = "", !.date = D1] }

\* Lines of economic/token_costs.jsonl: income records (the first carries
\* the timestamp keys of a cost record too), cost records (the second with
\* a null end stamp), a malformed line.
TokenLines ==
    { [Blank EXCEPT !.task_id = "T1", !.type = WorkIncome, !.date = D1,
                    !.evaluation_score = Num(80000),
                    !.actual_payment = Num(500000),
                    !.timestamp = V("naive", 5000),
                    !.timestamp_start = V("naive", 0),
                    !.timestamp_end = V("naive", 9000)],
      [Blank EXCEPT !.task_id = "T1", !.type = WorkIncome,
                    !.evaluation_score = Num(50000),
                    !.actual_payment = Num(12346)],
      [Blank EXCEPT !.task_id = "T2", !.type = WorkIncome, !.date = D2,
                    !.evaluation_score = Num(90000)],
      [Blank EXCEPT !.task_id = "T1", !.type = "llm_call", !.date = D2,
                    !.timestamp_start = V("naive", 0),
                    !.timestamp_end = V("naive", 1234)],
      [Blank EXCEPT !.task_id = "T1", !.type = "llm_call",
                    !.timestamp_start = V("naive", 1234),
                    !.timestamp_end = VNull],
      [Blank EXCEPT !.parse = "malformed"] }

\* Lines of economic/balance.jsonl.
BalanceLines ==
    { [Blank EXCEPT !.task_id = "T1", !.date = D1,
                    !.task_completion_time_seconds = Num(3141)],
      [Blank EXCEPT !.task_id = "T1", !.date = D2,
                    !.task_completion_time_seconds = Num(-2000)],
      [Blank EXCEPT !.task_id = "T1", !.date = Initialization,
                    !.task_completion_time_seconds = Num(9999)] }

\* An output file left by the live tracker.
StaleOut ==
    [exists |-> TRUE,
     lines  |-> << json_dumps([NoRecord EXCEPT !.task_id = "T9", !.attempt = 2,
                                               !.work_submitted = TRUE]) >>]

NoCall == [ctl |-> "none", exc |-> "none", rec |-> NoRecord]

InitRun ==
    /\ lastRun = "none"
    /\ exit_code = NotRun
    /\ returned = <<>>
    /\ tasks = <<>>
    /\ cost_records = <<>>
    /\ income_records = <<>>
    /\ balance_records = <<>>

InitCall ==
    /\ arg_task = None
    /\ arg_cost = None
    /\ arg_income = None
    /\ arg_balance = None
    /\ called = FALSE
    /\ result = NoCall

Init ==
    /\ rootExists \in BOOLEAN
    /\ \E a \in 0..MaxLines, b \in 0..MaxLines, c \in 0..MaxLines :
          /\ a + b + c <= MaxLines
          /\ rootExists \/ a + b + c = 0
          /\ tasksFile \in {File(l) : l \in [1..a -> TaskLines]}
          /\ costsFile \in {File(l) : l \in [1..b -> TokenLines]}
          /\ balanceFile \in {File(l) : l \in [1..c -> BalanceLines]}
    /\ outFile \in IF rootExists THEN {Absent, StaleOut} ELSE {Absent}
    /\ economicDir \in IF costsFile.exists \/ balanceFile.exists \/ outFile.exists
                       THEN {TRUE}
                       ELSE IF rootExists THEN BOOLEAN ELSE {FALSE}
    /\ InitRun
    /\ InitCall

DryRun   == \E now \in NowVals : main(TRUE, now)
WriteRun == \E now \in NowVals : main(FALSE, now)

Next == DryRun \/ WriteRun

Spec == Init /\ [][Next]_vars

----------------------------------------------------------------------------
(* Direct calls of derive_record *)

\* Values of timestamp_start and timestamp_end.
TsVals ==
    { VNull, V("empty", 0), V("bad", 0), Num(5),
      V("naive", 0), V("naive", 1234), V("aware", 1234) }

\* Values of task_completion_time_seconds.
DurVals ==
    { VMissing, VNull, V("bad", 0), V("list", 0), V("numstr", 2500),
      Num(-5000), Num(0), Num(3141) }

TaskArgs ==
    { [Blank EXCEPT !.task_id = "T1", !.date = d] : d \in {Missing, Null, "", D1} }

CostArgs ==
    {None} \cup
    { [Blank EXCEPT !.task_id = "T1", !.date = d,
                    !.timestamp_start = s, !.timestamp_end = e] :
        d \in {Missing, "", D2}, s \in TsVals, e \in TsVals }

IncomeArgs ==
    {None} \cup
    { [Blank EXCEPT !.task_id = "T1", !.type = WorkIncome, !.date = d,
                    !.timestamp = t, !.evaluation_score = x,
                    !.actual_payment = x] :
        d \in {Missing, D1}, t \in {VMissing, V("naive", 5000)},
        x \in {VMissing, Num(12346)} }

BalanceArgs ==
    {None} \cup
    { [Blank EXCEPT !.task_id = "T1", !.task_completion_time_seconds = x] :
        x \in DurVals }

InitRecord ==
    /\ rootExists = TRUE
    /\ economicDir = FALSE
    /\ tasksFile = Absent
    /\ costsFile = Absent
    /\ balanceFile = Absent
    /\ outFile = Absent
    /\ InitRun
    /\ arg_task \in TaskArgs
    /\ arg_cost \in CostArgs
    /\ arg_income \in IncomeArgs
    /\ arg_balance \in BalanceArgs
    /\ called = FALSE
    /\ result = NoCall

CallDeriveRecord ==
    /\ ~called
    /\ called' = TRUE
    /\ \E now \in NowVals :
          result' = derive_record("T1", arg_task, arg_cost, arg_income,
                                  arg_balance, now)
    /\ UNCHANGED <<arg_task, arg_cost, arg_income, arg_balance>>
    /\ UNCHANGED <<fsvars, runvars>>

NextRecord == CallDeriveRecord

SpecRecord == InitRecord /\ [][NextRecord]_vars

----------------------------------------------------------------------------
(* Properties of a run: what the logs say, read off the files *)

Ids    == {"T1", "T2"}
AllIds == Ids \cup {"", Missing}

\* A run of main has completed on an existing agent directory.
RunDone == lastRun # "none" /\ rootExists /\ exit_code = 0

IdsOf(list)     == {list[i].task_id : i \in DOMAIN list}
JsonLines(list) == [i \in DOMAIN list |-> json_dumps(list[i])]

\* The lines that qualify for each index.
QualTask(l)    == l.parse = "ok" /\ l.task_id \notin {Missing, Null, ""}
QualIncome(l)  == QualTask(l) /\ l.type = WorkIncome
QualCost(l)    == QualTask(l) /\ l.type # WorkIncome
                  /\ l.timestamp_start.kind # "missing"
                  /\ l.timestamp_end.kind # "missing"
QualBalance(l) == QualTask(l) /\ l.date # Initialization

HasLine(file, Q(_), tid) ==
    \E i \in DOMAIN file.lines : Q(file.lines[i]) /\ file.lines[i].task_id = tid

LastLine(file, Q(_), tid) ==
    file.lines[CHOOSE i \in DOMAIN file.lines :
                 /\ Q(file.lines[i]) /\ file.lines[i].task_id = tid
                 /\ \A j \in DOMAIN file.lines :
                       j > i => ~(Q(file.lines[j]) /\ file.lines[j].task_id = tid)]

FirstIndex(file, Q(_), tid) ==
    CHOOSE i \in DOMAIN file.lines :
       /\ Q(file.lines[i]) /\ file.lines[i].task_id = tid
       /\ \A j \in DOMAIN file.lines :
             j < i => ~(Q(file.lines[j]) /\ file.lines[j].task_id = tid)

HasAnyTask == \E i \in DOMAIN tasksFile.lines : QualTask(tasksFile.lines[i])

\* C1 as stated: a record for T is returned iff token_costs.jsonl holds an
\* income record for T, whatever tasks.jsonl holds.
C1_IffIncome ==
    RunDone =>
      \A T \in Ids : (T \in IdsOf(returned)) <=> HasLine(costsFile, QualIncome, T)

\* C1 (amended): a record for T is returned iff token_costs.jsonl holds an
\* income record for T and tasks.jsonl holds an assignment of T.
C1_IffIncomeAndTask ==
    RunDone =>
      \A T \in AllIds :
         (T \in IdsOf(returned)) <=>
            (HasLine(costsFile, QualIncome, T) /\ HasLine(tasksFile, QualTask, T))

C1_Witness ==
    /\ RunDone
    /\ "T1" \in IdsOf(returned)
    /\ HasLine(costsFile, QualIncome, "T2")
    /\ "T2" \notin IdsOf(returned)

\* An index holds one item per task identifier that has a qualifying line,
\* and the item is the last such line of the file.
IndexIsLastWins(idx, file, Q(_)) ==
    /\ \A i, j \in DOMAIN idx : idx[i].key = idx[j].key => i = j
    /\ \A tid \in AllIds :
          (\E i \in DOMAIN idx : idx[i].key = tid) <=> HasLine(file, Q, tid)
    /\ \A i \in DOMAIN idx : idx[i].val = LastLine(file, Q, idx[i].key)

RoundedScore(x) == IF x.kind = "missing" THEN 0 ELSE Round(x.v)

\* C2: last write wins in each of the four indexes, and a derived record's
\* evaluation_score and money_earned are those of the last income record of
\* its task in token_costs.jsonl.
C2_LastWriteWins ==
    (RunDone /\ HasAnyTask) =>
      /\ IndexIsLastWins(tasks, tasksFile, QualTask)
      /\ IndexIsLastWins(income_records, costsFile, QualIncome)
      /\ IndexIsLastWins(cost_records, costsFile, QualCost)
      /\ IndexIsLastWins(balance_records, balanceFile, QualBalance)
      /\ \A i \in DOMAIN returned :
            /\ returned[i].evaluation_score = RoundedScore(
                 LastLine(costsFile, QualIncome, returned[i].task_id).evaluation_score)
            /\ returned[i].money_earned = RoundedScore(
                 LastLine(costsFile, QualIncome, returned[i].task_id).actual_payment)

C2_Witness ==
    /\ RunDone
    /\ \E i, j \in DOMAIN costsFile.lines :
          /\ i < j
          /\ QualIncome(costsFile.lines[i]) /\ QualIncome(costsFile.lines[j])
          /\ costsFile.lines[i].task_id = "T1" /\ costsFile.lines[j].task_id = "T1"
          /\ costsFile.lines[i].evaluation_score # costsFile.lines[j].evaluation_score
          /\ \E k \in DOMAIN returned :
                /\ returned[k].task_id = "T1"
                /\ returned[k].evaluation_score = costsFile.lines[j].evaluation_score.v

\* C4: the returned (and written) sequence is non-decreasing by date, and
\* records with equal dates stand in the order in which their task
\* identifiers first appear in tasks.jsonl.
C4_SortedStable ==
    RunDone =>
      /\ \A i, j \in DOMAIN returned :
            i < j =>
              /\ StrRank(returned[i].date) <= StrRank(returned[j].date)
              /\ returned[i].date = returned[j].date =>
                    FirstIndex(tasksFile, QualTask, returned[i].task_id)
                      < FirstIndex(tasksFile, QualTask, returned[j].task_id)
      /\ (lastRun = "write" /\ HasAnyTask) => outFile.lines = JsonLines(returned)

C4_Witness ==
    /\ RunDone
    /\ Len(returned) = 2
    /\ returned[1].date = returned[2].date
    /\ returned[1].task_id = "T2"
    /\ returned[2].task_id = "T1"

\* C5: a dry run changes nothing on disk (the output file, the economic
\* directory, the three inputs) and returns what a write run would return.
C5_DryRunFrame ==
    [][lastRun' = "dry" =>
          /\ UNCHANGED fsvars
          /\ \E now \in NowVals :
                returned' = IF rootExists THEN Derivation(now).derived ELSE <<>>
      ]_vars

C5_Witness ==
    /\ RunDone
    /\ lastRun = "dry"
    /\ returned # <<>>
    /\ ~outFile.exists

\* C6 as stated: after any write run on an existing agent directory the
\* output file exists and holds exactly the returned records.
C6_AlwaysWritten ==
    (RunDone /\ lastRun = "write") =>
      (outFile.exists /\ outFile.lines = JsonLines(returned))

\* C6 (amended): after a write run that found at least one task assignment
\* in tasks.jsonl, the economic directory and the output file exist and the
\* file holds exactly the returned records, one per line.
C6_WrittenWhenTasks ==
    (RunDone /\ lastRun = "write" /\ HasAnyTask) =>
      (economicDir /\ outFile.exists /\ outFile.lines = JsonLines(returned))

C6_Witness ==
    /\ RunDone
    /\ lastRun = "write"
    /\ HasAnyTask
    /\ returned = <<>>
    /\ outFile.exists
    /\ outFile.lines = <<>>

\* No derived record takes its timestamp from datetime.now().
NoNowFallback ==
    \A i \in DOMAIN returned :
       \/ /\ HasLine(costsFile, QualCost, returned[i].task_id)
          /\ Truthy(LastLine(costsFile, QualCost, returned[i].task_id).timestamp_end)
       \/ Truthy(LastLine(costsFile, QualIncome, returned[i].task_id).timestamp)

\* C7: a write run that follows a write run on the same logs leaves the
\* output file as the first one wrote it, provided no record's timestamp
\* comes from the current time.
C7_Idempotent ==
    [][(RunDone /\ lastRun = "write" /\ lastRun' = "write" /\ NoNowFallback)
          => outFile' = outFile]_vars

C7_Witness ==
    /\ RunDone
    /\ lastRun = "write"
    /\ returned # <<>>
    /\ NoNowFallback
    /\ outFile.lines = JsonLines(returned)

----------------------------------------------------------------------------
(* Properties of derive_record and compute_wall_clock *)

Wall == result.rec.wall_clock_seconds

\* Both stamps of the cost record parse, to date-times that can be subtracted.
CostParsed ==
    /\ arg_cost # None
    /\ arg_cost.timestamp_start.kind \in {"naive", "aware"}
    /\ arg_cost.timestamp_end.kind = arg_cost.timestamp_start.kind
CostDiff == arg_cost.timestamp_end.v - arg_cost.timestamp_start.v
CostUsable == CostParsed /\ CostDiff >= 0
NoCostDuration == arg_cost = None \/ (CostParsed /\ CostDiff < 0)

Duration == arg_balance.task_completion_time_seconds
BalanceNumeric    == arg_balance # None /\ Duration.kind = "num"
BalanceUsable     == arg_balance # None /\ Duration.kind \in {"num", "numstr"}
BalanceNonNumeric == arg_balance # None /\ Duration.kind \in {"bad", "list"}

\* C3 as stated: the result is end - start, else the balance value, else null.
C3_FallbackUnrounded ==
    called =>
      /\ CostUsable => Wall = Num(CostDiff)
      /\ (NoCostDuration /\ BalanceNumeric) => Wall = Num(Duration.v)
      /\ (~CostUsable /\ ~BalanceUsable) => Wall = VNull

\* C3 (amended): the result is end - start rounded to 2 decimal places,
\* whatever the balance record holds; else the balance value rounded to 2
\* decimal places; else null.
C3_FallbackRounded ==
    called =>
      /\ CostUsable => Wall = Num(Round(CostDiff))
      /\ (NoCostDuration /\ BalanceNumeric) => Wall = Num(Round(Duration.v))
      /\ (~CostUsable /\ ~BalanceUsable) => Wall = VNull

C3_Witness ==
    /\ called
    /\ CostUsable /\ CostDiff = 1234
    /\ BalanceNumeric /\ Duration.v = 3141
    /\ Wall = Num(1230)

CostUnparseable ==
    /\ arg_cost # None
    /\ \/ arg_cost.timestamp_start.kind \notin {"naive", "aware"}
       \/ arg_cost.timestamp_end.kind \notin {"naive", "aware"}

C9_NonNegative ==
    (called /\ result.ctl = "return") =>
      (Wall.kind = "null" \/ (Wall.kind = "num" /\ Wall.v >= 0))

Present(d)  == d \notin {Missing, Null}
NonEmpty(d) == d \notin {Missing, Null, ""}

FirstDate(P(_)) ==
    IF P(arg_task.date) THEN arg_task.date
    ELSE IF arg_cost # None /\ P(arg_cost.date) THEN arg_cost.date
    ELSE IF arg_income # None /\ P(arg_income.date) THEN arg_income.date
    ELSE ""

\* C10 as stated: the date is the first of the task's, the cost record's
\* and the income record's date that is neither null nor missing, else "".
C10_FirstPresent ==
    (called /\ result.ctl = "return") => result.rec.date = FirstDate(Present)

\* C10 (amended): the date is the first of the three that is neither null,
\* missing nor the empty string, else "".
C10_FirstNonEmpty ==
    (called /\ result.ctl = "return") => result.rec.date = FirstDate(NonEmpty)

C10_Witness ==
    /\ called
    /\ arg_task.date = ""
    /\ arg_cost # None /\ arg_cost.date = D2
    /\ result.rec.date = D2

============================================================================
